---- MODULE Spec2Model ----
(***************************************************************************)
(* Model of src/lib/utils/sanitize-html.js: sanitizeHtml parses the        *)
(* content into a DOM, walks every node below doc.body with a TreeWalker,  *)
(* queues forbidden nodes and not-allowed nodes, filters the attributes of *)
(* the allowed ones and normalizes links, then applies the two queues and  *)
(* returns doc.body.innerHTML.                                             *)
(*                                                                         *)
(* The DOM is a set of numbered nodes (0 is doc.body, 1..n the nodes below *)
(* it in document order), each with a nodeName, an ordered attribute list, *)
(* a parentNode and an ordered childNodes list.  HTML text is a sequence   *)
(* of tokens (start tag with its attributes, end tag, character data).     *)
(***************************************************************************)
EXTENDS Integers, Sequences, FiniteSets, TLC

\* Bound on the input: nodes below body plus attributes on them.
MaxSize == 3

Body == 0
Null == -1

VARIABLES
  content,        \* the HTML text handed to sanitizeHtml (tokens)
  doc,            \* the document parseFromString built from content
  attributes,     \* live attribute list of every node
  tree,           \* live parentNode / childNodes of every node
  currentNode,    \* walker.currentNode
  removeList,     \* nodes to unwrap
  forbiddenList,  \* nodes to eliminate
  pc,             \* "walk", "forbidden", "remove", "done"
  idx,            \* position of the running forEach in its list
  caught,         \* nodes whose removal ran into a catch branch
  result,         \* the returned doc.body.innerHTML (tokens), <<>> before
  pass            \* 1: sanitizeHtml(x), 2: sanitizeHtml(sanitizeHtml(x))

vars == <<content, doc, attributes, tree, currentNode, removeList,
          forbiddenList, pc, idx, caught, result, pass>>

----------------------------------------------------------------------------
(* Strings *)

startsWith(s, prefix) ==
  /\ Len(s) >= Len(prefix)
  /\ SubSeq(s, 1, Len(prefix)) = prefix

\* String.prototype.slice(k): the string without its first k characters
slice(s, k) == SubSeq(s, k + 1, Len(s))

\* Element.nodeName of an HTML element is its tag in upper case; the text
\* node's is "#text".  toLowerCase over the names the model uses.
toLowerCase(s) ==
  CASE s = "OBJECT" -> "object"
    [] s = "SCRIPT" -> "script"
    [] s = "MARQUEE" -> "marquee"
    [] s = "DIV" -> "div"
    [] s = "A" -> "a"
    [] s = "IMG" -> "img"
    [] s = "INPUT" -> "input"
    [] OTHER -> s

\* validUrl.isWebUri over the attribute values of the model: a well-formed
\* URI whose scheme is http or https (and, for http, a host)
isWebUri(value) ==
  /\ \/ startsWith(value, "http://")
     \/ startsWith(value, "https://")
  /\ value \in {"http://example.com", "https://example.com/i.png"}

\* isemail.validate over the address parts of the model
isemailValidate(address) == address \in {"user@example.com"}

----------------------------------------------------------------------------
(* Attribute lists: sequences of [name, value], names unique *)

\* Element.getAttribute: <<value>> when present, <<>> for null
getAttribute(attrs, name) ==
  LET Named(a) == a.name = name
      hit == SelectSeq(attrs, Named)
  IN IF hit = <<>> THEN <<>> ELSE <<hit[1].value>>

\* Element.removeAttribute
removeAttribute(attrs, name) ==
  LET Other(a) == a.name # name
  IN SelectSeq(attrs, Other)

\* Element.setAttribute: changes the value in place when the attribute
\* exists, appends it otherwise
setAttribute(attrs, name, value) ==
  IF \E i \in 1..Len(attrs) : attrs[i].name = name
  THEN [i \in 1..Len(attrs) |->
          IF attrs[i].name = name THEN [name |-> name, value |-> value]
          ELSE attrs[i]]
  ELSE Append(attrs, [name |-> name, value |-> value])

----------------------------------------------------------------------------
(* Policy *)

AllowedTags ==
  {"#text", "a", "article", "b", "br", "blockquote", "cite", "code", "dd",
   "del", "div", "dt", "em", "h1", "h2", "h3", "h4", "h5", "h6", "hr", "i",
   "img", "ins", "li", "ol", "p", "pre", "s", "span", "strong", "sub",
   "sup", "table", "tbody", "td", "th", "thead", "tr", "tt", "ul"}

ForbiddenTags ==
  {"head", "html", "iframe", "link", "meta", "object", "script", "style"}

\* isAllowedTag without the test of the input's type
isAllowedTagAnyInput(nodeName, attrs) ==
  toLowerCase(nodeName) \in AllowedTags \cup {"input"}

isAllowedTag(nodeName, attrs) ==
  LET tagName == toLowerCase(nodeName)
  IN IF tagName = "input"
     THEN getAttribute(attrs, "type") = <<"checkbox">>
     ELSE tagName \in AllowedTags

isAllowedAttr(tagName, attrName) ==
  CASE tagName = "a" -> attrName \in {"alt", "href", "rel", "title"}
    [] tagName = "img" -> attrName \in {"alt", "src", "title"}
    [] tagName = "input" -> attrName \in {"checked", "type"}
    [] OTHER -> FALSE

\* isForbidden with the case 'object' missing from the switch
isForbiddenWithoutObject(nodeName) ==
  toLowerCase(nodeName) \in ForbiddenTags \ {"object"}

isForbidden(nodeName) == toLowerCase(nodeName) \in ForbiddenTags

----------------------------------------------------------------------------
(* The DOM tree: t.parentNode[node], t.childNodes[node] *)

firstChild(t, node) ==
  IF t.childNodes[node] = <<>> THEN Null ELSE t.childNodes[node][1]

\* position of node among the children of parent
IndexOf(seq, node) == CHOOSE i \in 1..Len(seq) : seq[i] = node

Without(seq, node) ==
  LET Other(x) == x # node
  IN SelectSeq(seq, Other)

nextSibling(t, node) ==
  LET parent == t.parentNode[node]
      sibs == IF parent = Null THEN <<>> ELSE t.childNodes[parent]
  IN IF parent = Null \/ IndexOf(sibs, node) = Len(sibs) THEN Null
     ELSE sibs[IndexOf(sibs, node) + 1]

\* Node.removeChild(node) on parent
removeChild(t, parent, node) ==
  [parentNode |-> [t.parentNode EXCEPT ![node] = Null],
   childNodes |-> [t.childNodes EXCEPT ![parent] = Without(@, node)]]

\* Node.insertBefore(child, ref) on parent: child leaves its old parent and
\* is put right before ref
insertBefore(t, parent, child, ref) ==
  LET old == t.parentNode[child]
      cut == IF old = Null THEN t.childNodes
             ELSE [t.childNodes EXCEPT ![old] = Without(@, child)]
      sibs == cut[parent]
      at == IndexOf(sibs, ref)
  IN [parentNode |-> [t.parentNode EXCEPT ![child] = parent],
      childNodes |-> [cut EXCEPT ![parent] =
                        SubSeq(sibs, 1, at - 1) \o <<child>>
                          \o SubSeq(sibs, at, Len(sibs))]]

\* TreeWalker.nextNode() under root doc.body: the next node in document
\* order, Null after the last one
RECURSIVE Following(_, _)
Following(t, node) ==
  IF node = Body THEN Null
  ELSE IF nextSibling(t, node) # Null THEN nextSibling(t, node)
  ELSE Following(t, t.parentNode[node])

nextNode(t, node) ==
  IF firstChild(t, node) # Null THEN firstChild(t, node)
  ELSE Following(t, node)

\* the nodes at or below node
RECURSIVE Subtree(_, _)
Subtree(t, node) ==
  {node} \cup UNION {Subtree(t, t.childNodes[node][i]) :
                       i \in 1..Len(t.childNodes[node])}

----------------------------------------------------------------------------
(* Serializer and parser *)

VoidTags == {"img", "input"}

StartTag(tagName, attrs) ==
  [kind |-> "start", name |-> tagName, attrs |-> attrs, data |-> <<>>]
EndTag(tagName) ==
  [kind |-> "end", name |-> tagName, attrs |-> <<>>, data |-> <<>>]
Characters(data) ==
  [kind |-> "text", name |-> "#text", attrs |-> <<>>, data |-> data]

\* text written after text is one run of characters
Emit(tokens, tok) ==
  IF /\ tok.kind = "text"
     /\ tokens # <<>>
     /\ tokens[Len(tokens)].kind = "text"
  THEN [tokens EXCEPT ![Len(tokens)] =
          Characters(tokens[Len(tokens)].data \o tok.data)]
  ELSE Append(tokens, tok)

RECURSIVE Concat(_, _)
Concat(tokens, more) ==
  IF more = <<>> THEN tokens
  ELSE Concat(Emit(tokens, Head(more)), Tail(more))

\* outerHTML of node / innerHTML of node, in the live attributes and tree
RECURSIVE OuterHTML(_, _, _, _), InnerFrom(_, _, _, _, _)
OuterHTML(d, attrs, t, node) ==
  LET tagName == toLowerCase(d.nodeName[node])
  IN IF tagName = "#text" THEN <<Characters(d.data[node])>>
     ELSE IF tagName \in VoidTags THEN <<StartTag(tagName, attrs[node])>>
     ELSE Concat(Concat(<<StartTag(tagName, attrs[node])>>,
                        InnerFrom(d, attrs, t, node, 1)),
                 <<EndTag(tagName)>>)

InnerFrom(d, attrs, t, node, i) ==
  IF i > Len(t.childNodes[node]) THEN <<>>
  ELSE Concat(OuterHTML(d, attrs, t, t.childNodes[node][i]),
              InnerFrom(d, attrs, t, node, i + 1))

innerHTML(d, attrs, t, node) == InnerFrom(d, attrs, t, node, 1)

ToUpperCase(s) ==
  CASE s = "object" -> "OBJECT"
    [] s = "script" -> "SCRIPT"
    [] s = "marquee" -> "MARQUEE"
    [] s = "div" -> "DIV"
    [] s = "a" -> "A"
    [] s = "img" -> "IMG"
    [] s = "input" -> "INPUT"
    [] OTHER -> s

\* children of every node, in document order, from the parent references
ChildrenOf(n, parent) ==
  LET RECURSIVE Kids(_, _)
      Kids(k, i) ==
        IF i > n THEN <<>>
        ELSE IF parent[i] = k THEN <<i>> \o Kids(k, i + 1)
        ELSE Kids(k, i + 1)
  IN [k \in 0..n |-> Kids(k, 1)]

\* DOMParser.parseFromString on properly nested markup: a start tag opens
\* a child of the innermost open element (and leaves it open unless the
\* element is void), an end tag closes it, adjacent character data is one
\* text node.  acc.open is the stack of open elements.
RECURSIVE TreeBuilder(_, _, _)
TreeBuilder(tokens, i, acc) ==
  IF i > Len(tokens) THEN acc
  ELSE
    LET tok == tokens[i]
        top == IF acc.open = <<>> THEN Body ELSE acc.open[Len(acc.open)]
        new == Len(acc.nodeName) + 1
    IN CASE tok.kind = "start" ->
              TreeBuilder(tokens, i + 1,
                [nodeName |-> Append(acc.nodeName, ToUpperCase(tok.name)),
                 attrs |-> Append(acc.attrs, tok.attrs),
                 data |-> Append(acc.data, <<>>),
                 parent |-> Append(acc.parent, top),
                 open |-> IF tok.name \in VoidTags THEN acc.open
                          ELSE Append(acc.open, new)])
         [] tok.kind = "end" ->
              TreeBuilder(tokens, i + 1,
                [acc EXCEPT !.open = SubSeq(@, 1, Len(@) - 1)])
         [] OTHER ->
              IF i > 1 /\ tokens[i - 1].kind = "text"
              THEN TreeBuilder(tokens, i + 1,
                     [acc EXCEPT !.data[new - 1] = @ \o tok.data])
              ELSE TreeBuilder(tokens, i + 1,
                     [acc EXCEPT !.nodeName = Append(@, "#text"),
                                 !.attrs = Append(@, <<>>),
                                 !.data = Append(@, tok.data),
                                 !.parent = Append(@, top)])

parseFromString(tokens) ==
  LET acc == TreeBuilder(tokens, 1,
               [nodeName |-> <<>>, attrs |-> <<>>, data |-> <<>>,
                parent |-> <<>>, open |-> <<>>])
      n == Len(acc.nodeName)
  IN [n |-> n,
      nodeName |-> acc.nodeName,
      attributes |-> acc.attrs,
      data |-> acc.data,
      parentNode |-> acc.parent,
      childNodes |-> ChildrenOf(n, acc.parent)]

TreeOf(d) == [parentNode |-> d.parentNode, childNodes |-> d.childNodes]

----------------------------------------------------------------------------
(* sanitizeHtml: the walk *)

\* the predicate handed to filter: TRUE for an attribute to strip
NotAllowed(tagName, attr) ==
  /\ ~isAllowedAttr(tagName, attr.name)
  /\ ~(attr.name \in {"href", "src"} /\ isWebUri(attr.value))
  /\ ~(/\ attr.name = "href"
       /\ startsWith(attr.value, "mailto:")
       /\ isemailValidate(slice(attr.value, 7)))

\* filter(node.attributes, ...): a new array of the attributes to strip
filterAttributes(tagName, attrs) ==
  LET Doomed(a) == NotAllowed(tagName, a)
  IN SelectSeq(attrs, Doomed)

\* .forEach(({ name }) => node.removeAttribute(name))
RECURSIVE forEachRemove(_, _)
forEachRemove(attrs, doomed) ==
  IF doomed = <<>> THEN attrs
  ELSE forEachRemove(removeAttribute(attrs, Head(doomed).name), Tail(doomed))

\* removing while iterating the live collection: after a removal the next
\* attribute has moved into the index just visited and is skipped
RECURSIVE removeWhileIterating(_, _, _)
removeWhileIterating(tagName, attrs, i) ==
  IF i > Len(attrs) THEN attrs
  ELSE IF NotAllowed(tagName, attrs[i])
  THEN removeWhileIterating(tagName, removeAttribute(attrs, attrs[i].name),
                            i + 1)
  ELSE removeWhileIterating(tagName, attrs, i + 1)

stripAttributesLive(tagName, attrs) == removeWhileIterating(tagName, attrs, 1)

stripAttributes(tagName, attrs) ==
  forEachRemove(attrs, filterAttributes(tagName, attrs))

\* normalization that keeps a rel the anchor came with
normalizeLinkKeepingRel(tagName, attrs) ==
  LET hrefAttribute == getAttribute(attrs, "href")
      withTarget == setAttribute(attrs, "target", "_blank")
  IN IF /\ tagName = "a"
        /\ hrefAttribute # <<>>
        /\ ~startsWith(hrefAttribute[1], "mailto:")
     THEN IF getAttribute(attrs, "rel") # <<>> THEN withTarget
          ELSE setAttribute(withTarget, "rel", "external noopener noreferrer")
     ELSE attrs

\* normalization without the mailto: test
normalizeLinkAlways(tagName, attrs) ==
  IF tagName = "a" /\ getAttribute(attrs, "href") # <<>>
  THEN setAttribute(setAttribute(attrs, "target", "_blank"),
                    "rel", "external noopener noreferrer")
  ELSE attrs

\* the link normalization at the end of the loop body
normalizeLink(tagName, attrs) ==
  LET hrefAttribute == getAttribute(attrs, "href")
  IN IF /\ tagName = "a"
        /\ hrefAttribute # <<>>
        /\ ~startsWith(hrefAttribute[1], "mailto:")
     THEN setAttribute(setAttribute(attrs, "target", "_blank"),
                       "rel", "external noopener noreferrer")
     ELSE attrs

----------------------------------------------------------------------------
(* sanitizeHtml: applying the two lists *)

\* elimination through the parent the walk saw: removeChild throws, into
\* the catch, when the node has moved to another parent since
eliminateNodeAtWalkParent(t, node) ==
  IF t.parentNode[node] # doc.parentNode[node] THEN t
  ELSE removeChild(t, doc.parentNode[node], node)

\* elimination that also detaches the children of the node, one by one
RECURSIVE dropChildren(_, _)
dropChildren(t, node) ==
  IF firstChild(t, node) = Null THEN t
  ELSE dropChildren(removeChild(t, node, firstChild(t, node)), node)

eliminateNodeAndChildren(t, node) ==
  IF t.parentNode[node] = Null THEN t
  ELSE removeChild(dropChildren(t, node), t.parentNode[node], node)

\* forbiddenList.forEach body; a null parentNode throws into the catch
eliminateNode(t, node) ==
  IF t.parentNode[node] = Null THEN t
  ELSE removeChild(t, t.parentNode[node], node)

\* the loop with parent.appendChild(child): the children go to the end of
\* the parent's list
RECURSIVE moveChildrenAppending(_, _, _)
moveChildrenAppending(t, parent, node) ==
  IF firstChild(t, node) = Null THEN t
  ELSE LET child == firstChild(t, node)
           cut == [t.childNodes EXCEPT ![node] = Without(@, child)]
       IN moveChildrenAppending(
            [parentNode |-> [t.parentNode EXCEPT ![child] = parent],
             childNodes |-> [cut EXCEPT ![parent] = Append(@, child)]],
            parent, node)

\* while ((child = node.firstChild)) parent.insertBefore(child, node)
RECURSIVE moveChildren(_, _, _)
moveChildren(t, parent, node) ==
  IF firstChild(t, node) = Null THEN t
  ELSE moveChildren(insertBefore(t, parent, firstChild(t, node), node),
                    parent, node)

\* removeList.forEach body; a null parent throws into the catch before
\* anything is moved
unwrapNode(t, node) ==
  LET parent == t.parentNode[node]
  IN IF parent = Null THEN t
     ELSE removeChild(moveChildren(t, parent, node), parent, node)

----------------------------------------------------------------------------
(* Input documents *)

NodeNames ==
  {"OBJECT", "SCRIPT", "MARQUEE", "DIV", "A", "IMG", "INPUT", "#text"}

\* the elements whose attributes the walk reads (INPUT) or filters
AttrBearing == {"DIV", "A", "IMG", "INPUT"}

AttrPairs ==
  {[name |-> "href", value |-> v] :
     v \in {"http://example.com", "javascript:alert(1)",
            "mailto:user@example.com", "mailto:nobody"}}
  \cup {[name |-> "src", value |-> v] :
          v \in {"https://example.com/i.png", "javascript:alert(1)"}}
  \cup {[name |-> "type", value |-> v] : v \in {"checkbox", "text"}}
  \cup {[name |-> "rel", value |-> "nofollow"],
        [name |-> "target", value |-> "_self"],
        [name |-> "onclick", value |-> "evil()"]}

RECURSIVE Ancestors(_, _)
Ancestors(parent, i) ==
  IF parent[i] = Body THEN {}
  ELSE {parent[i]} \cup Ancestors(parent, parent[i])

\* parent references of n nodes numbered in document order
Shapes(n) ==
  {p \in [1..n -> 0..(n - 1)] :
     \A i \in 1..n :
       /\ p[i] < i
       /\ i > 1 => p[i] \in {i - 1} \cup Ancestors(p, i - 1) \cup {Body}}

\* what the parser can build: void elements and text have no children, a
\* script holds text only, character data is never split in two text
\* nodes, and an anchor is never opened inside an anchor
Parseable(n, p, nm) ==
  \A i \in 1..n :
    /\ p[i] # Body =>
         /\ nm[p[i]] \notin {"#text", "IMG", "INPUT"}
         /\ nm[p[i]] = "SCRIPT" => nm[i] = "#text"
    /\ (i > 1 /\ nm[i] = "#text" /\ nm[i - 1] = "#text") => p[i] # p[i - 1]
    /\ nm[i] = "A" => \A j \in Ancestors(p, i) : nm[j] # "A"

\* k attributes handed out to the nodes, in document order
Placements(n, k, nm) ==
  {al \in [1..k -> (1..n) \X AttrPairs] :
     /\ \A j \in 1..k : nm[al[j][1]] \in AttrBearing
     /\ \A j \in 1..(k - 1) : al[j][1] <= al[j + 1][1]
     /\ \A j1, j2 \in 1..k :
          (j1 # j2 /\ al[j1][1] = al[j2][1]) => al[j1][2].name # al[j2][2].name}

AttributesOf(n, al) ==
  LET RECURSIVE Of(_, _)
      Of(i, j) ==
        IF j > Len(al) THEN <<>>
        ELSE IF al[j][1] = i THEN <<al[j][2]>> \o Of(i, j + 1)
        ELSE Of(i, j + 1)
  IN [i \in 1..n |-> Of(i, 1)]

\* every text node carries its own character data
Document(n, p, nm, al) ==
  [n |-> n,
   nodeName |-> nm,
   attributes |-> AttributesOf(n, al),
   data |-> [i \in 1..n |-> IF nm[i] = "#text" THEN <<i>> ELSE <<>>],
   parentNode |-> p,
   childNodes |-> ChildrenOf(n, p)]

Markup(d) == innerHTML(d, d.attributes, TreeOf(d), Body)

----------------------------------------------------------------------------
(* The state machine *)

\* const doc = parser.parseFromString(content, 'text/html') and the
\* declarations before the loop
Enter(text) ==
  /\ content = text
  /\ doc = parseFromString(text)
  /\ attributes = doc.attributes
  /\ tree = TreeOf(doc)
  /\ currentNode = Body
  /\ removeList = <<>>
  /\ forbiddenList = <<>>
  /\ pc = "walk"
  /\ idx = 1
  /\ caught = {}
  /\ result = <<>>

Init ==
  /\ pass = 1
  /\ \E n \in 1..MaxSize :
       \E p \in Shapes(n) :
         \E nm \in [1..n -> NodeNames] :
           /\ Parseable(n, p, nm)
           /\ \E k \in 0..(MaxSize - n) :
                \E al \in Placements(n, k, nm) :
                  Enter(Markup(Document(n, p, nm, al)))

WalkForbidden ==
  /\ pc = "walk"
  /\ nextNode(tree, currentNode) # Null
  /\ LET node == nextNode(tree, currentNode)
     IN /\ isForbidden(doc.nodeName[node])
        /\ forbiddenList' = Append(forbiddenList, node)
        /\ currentNode' = node
  /\ UNCHANGED <<content, doc, attributes, tree, removeList, pc, idx,
                 caught, result, pass>>

WalkRemove ==
  /\ pc = "walk"
  /\ nextNode(tree, currentNode) # Null
  /\ LET node == nextNode(tree, currentNode)
     IN /\ ~isForbidden(doc.nodeName[node])
        /\ ~isAllowedTag(doc.nodeName[node], attributes[node])
        /\ removeList' = Append(removeList, node)
        /\ currentNode' = node
  /\ UNCHANGED <<content, doc, attributes, tree, forbiddenList, pc, idx,
                 caught, result, pass>>

WalkKeep ==
  /\ pc = "walk"
  /\ nextNode(tree, currentNode) # Null
  /\ LET node == nextNode(tree, currentNode)
         tagName == toLowerCase(doc.nodeName[node])
     IN /\ ~isForbidden(doc.nodeName[node])
        /\ isAllowedTag(doc.nodeName[node], attributes[node])
        /\ attributes' =
             [attributes EXCEPT ![node] =
                normalizeLink(tagName, stripAttributes(tagName, @))]
        /\ currentNode' = node
  /\ UNCHANGED <<content, doc, tree, removeList, forbiddenList, pc, idx,
                 caught, result, pass>>

\* walker.nextNode() returned null
WalkEnd ==
  /\ pc = "walk"
  /\ nextNode(tree, currentNode) = Null
  /\ pc' = "forbidden"
  /\ idx' = 1
  /\ UNCHANGED <<content, doc, attributes, tree, currentNode, removeList,
                 forbiddenList, caught, result, pass>>

Eliminate ==
  /\ pc = "forbidden"
  /\ idx <= Len(forbiddenList)
  /\ LET node == forbiddenList[idx]
     IN /\ tree' = eliminateNode(tree, node)
        /\ caught' = IF tree.parentNode[node] = Null
                     THEN caught \cup {node} ELSE caught
  /\ idx' = idx + 1
  /\ UNCHANGED <<content, doc, attributes, currentNode, removeList,
                 forbiddenList, pc, result, pass>>

EliminateEnd ==
  /\ pc = "forbidden"
  /\ idx > Len(forbiddenList)
  /\ pc' = "remove"
  /\ idx' = 1
  /\ UNCHANGED <<content, doc, attributes, tree, currentNode, removeList,
                 forbiddenList, caught, result, pass>>

Unwrap ==
  /\ pc = "remove"
  /\ idx <= Len(removeList)
  /\ LET node == removeList[idx]
     IN /\ tree' = unwrapNode(tree, node)
        /\ caught' = IF tree.parentNode[node] = Null
                     THEN caught \cup {node} ELSE caught
  /\ idx' = idx + 1
  /\ UNCHANGED <<content, doc, attributes, currentNode, removeList,
                 forbiddenList, pc, result, pass>>

\* return doc.body.innerHTML
Return ==
  /\ pc = "remove"
  /\ idx > Len(removeList)
  /\ result' = innerHTML(doc, attributes, tree, Body)
  /\ pc' = "done"
  /\ UNCHANGED <<content, doc, attributes, tree, currentNode, removeList,
                 forbiddenList, idx, caught, pass>>

\* the caller hands the returned markup to sanitizeHtml once more
SanitizeAgain ==
  /\ pc = "done"
  /\ pass = 1
  /\ pass' = 2
  /\ content' = result
  /\ doc' = parseFromString(result)
  /\ attributes' = doc'.attributes
  /\ tree' = TreeOf(doc')
  /\ currentNode' = Body
  /\ removeList' = <<>>
  /\ forbiddenList' = <<>>
  /\ pc' = "walk"
  /\ idx' = 1
  /\ caught' = {}
  /\ result' = <<>>

Next ==
  \/ WalkForbidden
  \/ WalkRemove
  \/ WalkKeep
  \/ WalkEnd
  \/ Eliminate
  \/ EliminateEnd
  \/ Unwrap
  \/ Return
  \/ SanitizeAgain

Spec == Init /\ [][Next]_vars

\* the input documents are exactly what the parser makes of their markup
InputIsParsed ==
  (pass = 1) =>
    /\ innerHTML(doc, doc.attributes, TreeOf(doc), Body) = content
    /\ \A i \in 1..doc.n : doc.nodeName[i] = "#text" => doc.data[i] = <<i>>

----------------------------------------------------------------------------
(* Vocabulary of the properties.  The input tree is doc (the parse of     *)
(* content); the output tree is what the live tree holds below body once  *)
(* pc = "done"; the output markup is result.                              *)

Nodes == 1..doc.n

TagOf(i) == toLowerCase(doc.nodeName[i])

\* nodes reachable from body in tree t, body aside
Reachable(t) == Subtree(t, Body) \ {Body}

\* the part of t that body reaches
ReachView(t) == [k \in Subtree(t, Body) |-> t.childNodes[k]]

\* the nodes below node in t, in document order
RECURSIVE DocumentOrder(_, _), OrderFrom(_, _, _)
DocumentOrder(t, node) == OrderFrom(t, node, 1)
OrderFrom(t, node, i) ==
  IF i > Len(t.childNodes[node]) THEN <<>>
  ELSE <<t.childNodes[node][i]>> \o DocumentOrder(t, t.childNodes[node][i])
         \o OrderFrom(t, node, i + 1)

ForbiddenInInput(i) == TagOf(i) \in ForbiddenTags

UnderForbidden(i) ==
  \E j \in Ancestors(doc.parentNode, i) : ForbiddenInInput(j)

\* text, an allowed element, or a checkbox input, as the input has it
AllowedInInput(i) ==
  \/ TagOf(i) \in AllowedTags \ {"input"}
  \/ /\ TagOf(i) = "input"
     /\ getAttribute(doc.attributes[i], "type") = <<"checkbox">>

UnknownInInput(i) == ~ForbiddenInInput(i) /\ ~AllowedInInput(i)

Survivor(i) == AllowedInInput(i) /\ ~UnderForbidden(i)

RECURSIVE NearestKept(_)
NearestKept(i) ==
  LET parent == doc.parentNode[i]
  IN IF parent = Body \/ AllowedInInput(parent) THEN parent
     ELSE NearestKept(parent)

Done == pc = "done"

----------------------------------------------------------------------------
(* C1 *)

\* C1: once sanitizeHtml is done, no element with a forbidden tag and no
\* node that was below such an element in the input (text or element) is
\* reachable from body, and the returned markup holds no forbidden tag and
\* none of the character data of those text nodes.
NoForbiddenContentSurvives ==
  Done =>
    /\ \A i \in Nodes :
         (ForbiddenInInput(i) \/ UnderForbidden(i)) =>
           /\ i \notin Reachable(tree)
           /\ \A k \in 1..Len(result) :
                \A x \in 1..Len(doc.data[i]) :
                  \A y \in 1..Len(result[k].data) :
                    result[k].data[y] # doc.data[i][x]
    /\ \A k \in 1..Len(result) : result[k].name \notin ForbiddenTags

\* a forbidden element nested inside an unknown element, with a node below
\* it, was sanitized
ForbiddenSubtreeSanitized ==
  /\ Done
  /\ pass = 1
  /\ \E i, j \in Nodes :
       /\ ForbiddenInInput(i)
       /\ doc.parentNode[j] = i
       /\ doc.parentNode[i] # Body
       /\ UnknownInInput(doc.parentNode[i])

----------------------------------------------------------------------------
(* C4 *)

\* C4: once sanitizeHtml is done, every element reachable from body has an
\* allowed tag, every reachable input element has type = checkbox, and the
\* same holds of every start tag of the returned markup.
OnlyAllowedElements ==
  Done =>
    /\ \A i \in Reachable(tree) :
         /\ TagOf(i) \in AllowedTags \cup {"input"}
         /\ TagOf(i) = "input" =>
              getAttribute(attributes[i], "type") = <<"checkbox">>
    /\ \A k \in 1..Len(result) :
         /\ result[k].name \in AllowedTags \cup {"input"}
         /\ result[k].kind = "start" /\ result[k].name = "input" =>
              getAttribute(result[k].attrs, "type") = <<"checkbox">>

\* an input that is no checkbox and an unknown element were in the input
\* and are gone, with something kept
NotAllowedElementsUnwrapped ==
  /\ Done
  /\ pass = 1
  /\ \E i \in Nodes :
       /\ TagOf(i) = "input"
       /\ getAttribute(doc.attributes[i], "type") # <<"checkbox">>
       /\ i \notin Reachable(tree)
  /\ Reachable(tree) # {}

----------------------------------------------------------------------------
(* C8 *)

\* C8: once sanitizeHtml is done, the nodes reachable from body, read in
\* document order, are the input's text nodes and allowed elements without
\* a forbidden ancestor, in input document order, and each of them hangs
\* under its nearest kept input ancestor (or body).
UnwrapPreservesOrder ==
  Done =>
    /\ DocumentOrder(tree, Body) =
         SelectSeq([i \in Nodes |-> i], Survivor)
    /\ \A i \in Reachable(tree) : tree.parentNode[i] = NearestKept(i)

\* an unknown element with a child and a kept following sibling was
\* unwrapped
UnwrappedBeforeSibling ==
  /\ Done
  /\ pass = 1
  /\ \E u, c, s \in Nodes :
       /\ UnknownInInput(u)
       /\ doc.parentNode[c] = u
       /\ doc.parentNode[s] = doc.parentNode[u]
       /\ u < s
       /\ Survivor(c)
       /\ Survivor(s)
       /\ u \notin Reachable(tree)

----------------------------------------------------------------------------
(* C9 *)

\* the two forEach loops, each as one function of the tree
RECURSIVE forEachEliminate(_, _), forEachUnwrap(_, _)
forEachEliminate(t, list) ==
  IF list = <<>> THEN t
  ELSE forEachEliminate(eliminateNode(t, Head(list)), Tail(list))
forEachUnwrap(t, list) ==
  IF list = <<>> THEN t
  ELSE forEachUnwrap(unwrapNode(t, Head(list)), Tail(list))

\* C9: once sanitizeHtml is done, what body reaches is what it would reach
\* had the walk's removeList been unwrapped first and its forbiddenList
\* eliminated after, starting from the tree the walk saw.
RemovalOrderIrrelevant ==
  Done =>
    ReachView(tree) =
      ReachView(forEachEliminate(forEachUnwrap(TreeOf(doc), removeList),
                                 forbiddenList))

\* both lists were applied, one of the forbidden nodes nested inside an
\* unwrapped one and holding a node of its own
BothListsApplied ==
  /\ Done
  /\ pass = 1
  /\ \E f \in Nodes :
       /\ ForbiddenInInput(f)
       /\ doc.parentNode[f] # Body
       /\ UnknownInInput(doc.parentNode[f])
       /\ tree.childNodes[f] # <<>>
  /\ Len(forbiddenList) >= 1
  /\ Len(removeList) >= 1

----------------------------------------------------------------------------
(* C10 *)

\* the node the running forEach is about to remove, Null outside the loops
Queued ==
  IF pc = "forbidden" /\ idx <= Len(forbiddenList) THEN forbiddenList[idx]
  ELSE IF pc = "remove" /\ idx <= Len(removeList) THEN removeList[idx]
  ELSE Null

----------------------------------------------------------------------------
(* C2 *)

\* C2: once sanitizeHtml is done, a reachable img whose input src is no
\* valid http/https URI has no src attribute.
SchemeRejection ==
  Done =>
    \A i \in Reachable(tree) :
      (/\ TagOf(i) = "img"
       /\ getAttribute(doc.attributes[i], "src") # <<>>
       /\ ~isWebUri(getAttribute(doc.attributes[i], "src")[1]))
        => getAttribute(attributes[i], "src") = <<>>

----------------------------------------------------------------------------
(* C3 *)

\* C3: the second call returns the markup it was given, which is what the
\* first call returned: same tags, same nesting and order, same attributes
\* with the same values in the same order.
Idempotence == (Done /\ pass = 2) => result = content

\* the same markup with every attribute list replaced by the set of its
\* attributes
Unordered(tokens) ==
  [k \in 1..Len(tokens) |->
     [tokens[k] EXCEPT !.attrs = {tokens[k].attrs[j] : j \in 1..Len(@)}]]

\* what does hold of the second call: the same markup up to the order of
\* the attributes inside a start tag
IdempotenceUpToAttributeOrder ==
  (Done /\ pass = 2) => Unordered(result) = Unordered(content)

----------------------------------------------------------------------------
(* C5 *)

\* the attributes the claim permits on an element with this tag
Permitted(tagName, attrs, a) ==
  \/ tagName = "a" /\ a.name \in {"alt", "href", "rel", "title"}
  \/ tagName = "img" /\ a.name \in {"alt", "src", "title"}
  \/ tagName = "input" /\ a.name \in {"checked", "type"}
  \/ /\ a.name \in {"href", "src"}
     /\ a.value \in {"http://example.com", "https://example.com/i.png"}
  \/ a = [name |-> "href", value |-> "mailto:user@example.com"]
  \/ /\ tagName = "a"
     /\ \E h \in 1..Len(attrs) :
          /\ attrs[h].name = "href"
          /\ attrs[h].value \notin {"mailto:user@example.com", "mailto:nobody"}
     /\ \/ a = [name |-> "target", value |-> "_blank"]
        \/ a = [name |-> "rel", value |-> "external noopener noreferrer"]

\* C5: once sanitizeHtml is done, every attribute of every reachable
\* element is permitted (static list of its tag, http/https href or src,
\* mailto href with a valid address, or the forced target/rel of a
\* normalized anchor), every allowed input element without a forbidden
\* ancestor is still there, and the start tags returned carry the same.
OnlyPermittedAttributes ==
  Done =>
    /\ \A i \in Reachable(tree) :
         \A j \in 1..Len(attributes[i]) :
           Permitted(TagOf(i), attributes[i], attributes[i][j])
    /\ \A i \in Nodes : Survivor(i) => i \in Reachable(tree)
    /\ \A k \in 1..Len(result) :
         \A j \in 1..Len(result[k].attrs) :
           Permitted(result[k].name, result[k].attrs, result[k].attrs[j])

\* an element that came with two attributes that are not permitted, one
\* right after the other, is kept without them
DisallowedAttributesStripped ==
  /\ Done
  /\ pass = 1
  /\ \E i \in Reachable(tree) :
       /\ Len(doc.attributes[i]) >= 2
       /\ ~Permitted(TagOf(i), doc.attributes[i], doc.attributes[i][1])
       /\ ~Permitted(TagOf(i), doc.attributes[i], doc.attributes[i][2])
       /\ Len(attributes[i]) = Len(doc.attributes[i]) - 2

----------------------------------------------------------------------------
(* C6 *)

\* C6: once sanitizeHtml is done, a reachable anchor whose href is present
\* and does not start with mailto: has target = _blank and
\* rel = external noopener noreferrer.
LinksNormalized ==
  Done =>
    \A i \in Reachable(tree) :
      (/\ TagOf(i) = "a"
       /\ getAttribute(attributes[i], "href") # <<>>
       /\ ~startsWith(getAttribute(attributes[i], "href")[1], "mailto:"))
        => /\ getAttribute(attributes[i], "target") = <<"_blank">>
           /\ getAttribute(attributes[i], "rel") =
                <<"external noopener noreferrer">>

\* an anchor that came with an href and a rel or target of its own was
\* normalized
SuppliedRelOverwritten ==
  /\ Done
  /\ pass = 1
  /\ \E i \in Reachable(tree) :
       /\ TagOf(i) = "a"
       /\ getAttribute(doc.attributes[i], "href") = <<"http://example.com">>
       /\ getAttribute(doc.attributes[i], "rel") = <<"nofollow">>
       /\ getAttribute(attributes[i], "rel") # <<"nofollow">>

----------------------------------------------------------------------------
(* C7 *)

====
